---- MODULE Spec2Model ----
(***************************************************************************)
(* The budget tracker of sofiacarreterog/FinalProject: three menu-driven    *)
(* scripts over the same JSON files.                                        *)
(*   Adding_Funds.py           ("funds" variant:   balance, expenses, funds) *)
(*   Adding_Initial_Income.py  ("income" variant:  balance, expenses)        *)
(*   Budget_Tracker.py         ("tracker" variant: expenses, edit, delete)   *)
(* Amounts are floats in the scripts; here they are whole numbers and nan,   *)
(* the float that "nan" typed at an amount prompt is parsed to.              *)
(* The "date" field of a transaction is a wall-clock string that no          *)
(* operation reads; it is left out of the transaction records.               *)
(* Writes to disk are assumed to succeed.                                    *)
(***************************************************************************)
EXTENDS Integers, Sequences, FiniteSets, TLC

VARIABLES
    script,          \* the script that is run: "funds" | "income" | "tracker"
    balanceFile,     \* contents of balance.json
    expensesFile,    \* contents of expenses.json
    categoriesFile,  \* contents of categories.json
    balance,         \* main's local `balance`
    expenses,        \* main's local `expenses` (the transaction log)
    categories,      \* main's local `categories`
    pc,              \* "boot" | "menu" | "exited" | "crashed"
    last,            \* the handler that ran last and the inputs it accepted
    out              \* what the handler that ran last displayed

vars == <<script, balanceFile, expensesFile, categoriesFile, balance, expenses,
          categories, pc, last, out>>

(***************************************************************************)
(* Bounds                                                                  *)
(***************************************************************************)
MaxAmount == 2      \* largest amount typed at a prompt
MaxLog == 2         \* the log is not grown beyond this length
\* add_funds is not explored beyond this balance
MaxBalance == MaxAmount + 1

(***************************************************************************)
(* Python values                                                           *)
(***************************************************************************)
\* category_id is an int for expenses and the string "Income" for funds
PyInt(n) == [int |-> n]
PyStr(s) == [str |-> s]
IsPyInt(v) == DOMAIN v = {"int"}
Income == PyStr("Income")

\* float("nan"): written as a number that no typed amount, balance or sum of
\* the model can be
nan == -(MaxBalance + (MaxLog + 1) * MaxAmount + 1)
isnan(x) == x = nan
\* float arithmetic and comparison: nan propagates, and compares False
fadd(x, y) == IF isnan(x) \/ isnan(y) THEN nan ELSE x + y
fsub(x, y) == IF isnan(x) \/ isnan(y) THEN nan ELSE x - y
fneg(x) == IF isnan(x) THEN nan ELSE -x
flt(x, y) == ~isnan(x) /\ ~isnan(y) /\ x < y
fgt(x, y) == ~isnan(x) /\ ~isnan(y) /\ x > y
fle(x, y) == ~isnan(x) /\ ~isnan(y) /\ x <= y
fge(x, y) == ~isnan(x) /\ ~isnan(y) /\ x >= y
feq(x, y) == ~isnan(x) /\ ~isnan(y) /\ x = y

\* text typed at a numeric prompt: float(...) / int(...) raise ValueError
\* on text that is not a number
NotANumber == [isnum |-> FALSE, n |-> 0]
Num(n) == [isnum |-> TRUE, n |-> n]

\* strings are sequences of the characters "a", "A" and " "
upper(c) == IF c = "a" THEN "A" ELSE c
lower(c) == IF c = "A" THEN "a" ELSE c
capitalize(s) == [i \in 1..Len(s) |-> IF i = 1 THEN upper(s[i]) ELSE lower(s[i])]
RECURSIVE lstrip(_)
lstrip(s) == IF s # <<>> /\ Head(s) = " " THEN lstrip(Tail(s)) ELSE s
RECURSIVE rstrip(_)
rstrip(s) == IF s # <<>> /\ s[Len(s)] = " " THEN rstrip(SubSeq(s, 1, Len(s) - 1)) ELSE s
strip(s) == rstrip(lstrip(s))

(***************************************************************************)
(* Files and JSON                                                          *)
(***************************************************************************)
Missing == [kind |-> "missing"]          \* no such file
Unparsable == [kind |-> "text"]          \* empty or not JSON
JObj(r) == [kind |-> "obj", val |-> r]   \* a JSON object
JArr(s) == [kind |-> "arr", val |-> s]   \* a JSON array

\* json.dump(v, file): write v as JSON
json_dump_dict(d) == JObj(d)
json_dump_list(l) == JArr(l)
\* open(path, "w").close(): truncate to an empty file
truncate == Unparsable
\* open(path, "r") + json.load raise FileNotFoundError / JSONDecodeError
LoadFails(file) == file.kind \in {"missing", "text"}

DefaultCategories ==
    << [id |-> 1, name |-> "Food"],
       [id |-> 2, name |-> "Transport"],
       [id |-> 3, name |-> "Entertainment"],
       [id |-> 4, name |-> "Shopping"],
       [id |-> 5, name |-> "Other"] >>

(***************************************************************************)
(* Persistence                                                             *)
(***************************************************************************)
save_balance(b) == json_dump_dict([balance |-> b])

save_expenses(e) == json_dump_list(e)

load_expenses(file) == IF LoadFails(file) THEN <<>> ELSE file.val

\* returns the categories and the file as load_categories leaves it
load_categories(file) ==
    IF LoadFails(file)
    THEN [categories |-> DefaultCategories, file |-> json_dump_list(DefaultCategories)]
    ELSE [categories |-> file.val, file |-> file]

(***************************************************************************)
(* Prompts with retry: `tries` is what the user types, in order; the       *)
(* prompt returns at the first accepted entry                              *)
(***************************************************************************)
\* flags[i] tells whether the i-th entry typed passes the prompt's checks
FirstAccepted(flags) ==
    CHOOSE i \in 1..Len(flags) : flags[i] /\ \A j \in 1..(i - 1) : ~flags[j]
Accepts(flags) == \E i \in 1..Len(flags) : flags[i]

AmountOk(r) == r.isnum /\ ~flt(r.n, 0)
AmountFlags(tries) == [i \in 1..Len(tries) |-> AmountOk(tries[i])]
get_valid_amount(tries) == tries[FirstAccepted(AmountFlags(tries))].n

CategoryOk_any_number(cats, r) == r.isnum
CategoryOk(cats, r) == r.isnum /\ \E k \in 1..Len(cats) : cats[k].id = r.n
CategoryFlags(cats, tries) == [i \in 1..Len(tries) |-> CategoryOk(cats, tries[i])]
get_valid_category_id(cats, tries) == tries[FirstAccepted(CategoryFlags(cats, tries))].n
AcceptsCategory(cats, tries) == Accepts(CategoryFlags(cats, tries))

StringOk(s) == strip(s) # <<>>
StringFlags(tries) == [i \in 1..Len(tries) |-> StringOk(tries[i])]
get_valid_string(tries) == capitalize(strip(tries[FirstAccepted(StringFlags(tries))]))
AcceptsString(tries) == Accepts(StringFlags(tries))

set_initial_balance_unsaved(tries) ==
    [balance |-> tries[FirstAccepted(AmountFlags(tries))].n, file |-> Missing]

\* set_initial_balance: the accepted balance and the balance file it writes
set_initial_balance(tries) ==
    LET b == tries[FirstAccepted(AmountFlags(tries))].n
    IN  [balance |-> b, file |-> save_balance(b)]

\* load_balance: `raised` is an exception the function does not catch
load_balance(file, tries) ==
    IF LoadFails(file)
    THEN LET s == set_initial_balance(tries)
         IN  [raised |-> FALSE, balance |-> s.balance, file |-> s.file, prompted |-> 1]
    ELSE IF file.kind = "obj"
    THEN [raised |-> FALSE,
          balance |-> IF "balance" \in DOMAIN file.val THEN file.val.balance ELSE 0,
          file |-> file, prompted |-> 0]
    ELSE [raised |-> TRUE, balance |-> 0, file |-> file, prompted |-> 0]

(***************************************************************************)
(* What the user may type                                                  *)
(***************************************************************************)
\* an amount typed at once, or (the largest) after text that is not a number
\* and a negative number
NumberTries == {<<Num(a)>> : a \in 0..(MaxAmount - 1)}
               \cup {<<NotANumber, Num(-1), Num(MaxAmount)>>}
\* the same, or "nan": what is typed for an expense or for funds of the
\* scripts that keep a balance
AmountTries == NumberTries \cup {<<Num(nan)>>}

\* a category id typed at once, or after text that is not a number and an
\* id that may be unknown; 9 is not an id of the default categories
CategoryTries == {<<Num(2)>>, <<NotANumber, Num(9), Num(1)>>}
\* the ids typed when an expense is recorded
ExpenseCategoryTries == {<<NotANumber, Num(9), Num(1)>>}

\* the descriptions typed: nothing, and " aA"
Descriptions == { <<>>, <<" ", "a", "A">> }
\* the description typed for added funds
FundsDescriptions == { <<" ", "a", "A">> }
\* " aA" typed at once, or "a " after an empty line and a blank line
DescriptionTries == {<< <<" ", "a", "A">> >>, << <<>>, <<" ">>, <<"a", " ">> >>}

ContinueInputs == {"yes", "no"}

(***************************************************************************)
(* Records of what ran last                                                *)
(***************************************************************************)
NoOut == [msg |-> "", items |-> <<>>, total |-> 0]
Said(m) == [msg |-> m, items |-> <<>>, total |-> 0]
Ran(op) == [op |-> op, amount |-> 0, category_id |-> 0, description |-> <<>>,
            index |-> 0, asked |-> {}, prompted |-> 0]

Expense(a, c, d) == [amount |-> a, category_id |-> c, description |-> d]

(***************************************************************************)
(* Initial state: the files found on disk, nothing loaded yet              *)
(***************************************************************************)
\* (the Exit choice leaves empty, unparsable balance and expenses files)
InitialBalanceFiles ==
    {Missing, JObj(<<>>), JArr(<<>>), save_balance(MaxAmount)}

InitialLogs ==
    { <<>>,
      <<Expense(-1, PyInt(1), <<"A", "a">>)>>,
      <<Expense(1, PyInt(9), <<"A", "a">>)>> }

InitialExpensesFiles == {Missing} \cup {save_expenses(l) : l \in InitialLogs}

InitialCategoriesFiles == {Missing, json_dump_list(DefaultCategories)}

Scripts == {"funds", "income", "tracker"}

Init ==
    /\ script \in Scripts
    /\ balanceFile \in InitialBalanceFiles
    /\ expensesFile \in InitialExpensesFiles
    /\ categoriesFile \in InitialCategoriesFiles
    /\ balance = 0
    /\ expenses = <<>>
    /\ categories = <<>>
    /\ pc = "boot"
    /\ last = Ran("none")
    /\ out = NoOut

(***************************************************************************)
(* Helpers shared by the three scripts                                     *)
(***************************************************************************)
RECURSIVE sum(_)
sum(amounts) == IF amounts = <<>> THEN 0 ELSE fadd(Head(amounts), sum(Tail(amounts)))
abs(x) == IF flt(x, 0) THEN fneg(x) ELSE x
Amounts(log) == [i \in 1..Len(log) |-> log[i].amount]

\* next((cat["name"] for cat in categories if cat["id"] == cid), default)
CategoryName(cats, cid, default) ==
    IF IsPyInt(cid) /\ \E k \in 1..Len(cats) : cats[k].id = cid.int
    THEN cats[CHOOSE k \in 1..Len(cats) :
                /\ cats[k].id = cid.int
                /\ \A j \in 1..(k - 1) : cats[j].id # cid.int].name
    ELSE default

\* the lines view_expenses prints, numbered from 1
Listing(log, cats, default) ==
    [i \in 1..Len(log) |->
        [idx |-> i, amount |-> log[i].amount,
         category |-> CategoryName(cats, log[i].category_id, default),
         description |-> log[i].description]]

Filtered_unless_empty(log, category_id) ==
    IF \E i \in 1..Len(log) : log[i].category_id = PyInt(category_id) THEN log ELSE <<>>

\* [exp for exp in expenses if exp.get("category_id") == category_id]
Filtered(log, category_id) ==
    SelectSeq(log, LAMBDA e : e.category_id = PyInt(category_id))

\* variants of the check used to test the properties below
insufficient_or_equal(amount, bal) == fge(amount, bal)
insufficient_never(amount, bal) == FALSE

\* `if amount > balance:` of add_expense
insufficient(amount, bal) == fgt(amount, bal)

income_record_as_expense(amount, description) == Expense(fneg(amount), Income, description)

expense_record_unsigned(amount, category_id, description) ==
    Expense(amount, PyInt(category_id), description)

\* the record add_expense of Adding_Funds.py appends
expense_record(amount, category_id, description) ==
    Expense(fneg(amount), PyInt(category_id), description)

\* the record add_funds appends
income_record(amount, description) == Expense(amount, Income, description)

valid_index_no_lower_bound(index, n) == index < n

\* `if 0 <= index < len(expenses):` of delete_expense and edit_expense
valid_index(index, n) == 0 <= index /\ index < n

\* Python list indexing: a negative index counts from the end
position(l, index) == IF index < 0 THEN index + Len(l) + 1 ELSE index + 1
\* l[index] = v
setitem(l, index, v) == [l EXCEPT ![position(l, index)] = v]
\* del l[index]
delitem(l, index) ==
    [i \in 1..(Len(l) - 1) |-> IF i < position(l, index) THEN l[i] ELSE l[i + 1]]

Disk == <<balanceFile, expensesFile, categoriesFile>>
Memory == <<balance, expenses, categories>>

(***************************************************************************)
(* Adding_Funds.py                                                         *)
(***************************************************************************)
\* main, up to the first display of the menu
main_funds ==
    /\ script = "funds"
    /\ pc = "boot"
    /\ UNCHANGED script
    /\ \E t1 \in NumberTries, t2 \in NumberTries :
         LET lb == load_balance(balanceFile, t1) IN
         IF lb.raised
         THEN /\ pc' = "crashed"
              /\ last' = Ran("main")
              /\ out' = Said("AttributeError")
              /\ UNCHANGED <<Disk, Memory>>
         ELSE LET again == feq(lb.balance, 0)
                  s == set_initial_balance(t2)
                  lc == load_categories(categoriesFile)
              IN  /\ balance' = IF again THEN s.balance ELSE lb.balance
                  /\ balanceFile' = IF again THEN s.file ELSE lb.file
                  /\ expenses' = load_expenses(expensesFile)
                  /\ categories' = lc.categories
                  /\ categoriesFile' = lc.file
                  /\ pc' = "menu"
                  /\ last' = [Ran("main") EXCEPT
                                !.prompted = lb.prompted + (IF again THEN 1 ELSE 0)]
                  /\ out' = NoOut
                  /\ UNCHANGED expensesFile

add_expense_funds ==
    /\ script = "funds"
    /\ pc = "menu"
    /\ UNCHANGED script
    /\ \E at \in AmountTries :
         LET amount == get_valid_amount(at) IN
         IF insufficient(amount, balance)
         THEN /\ last' = [Ran("add_expense") EXCEPT !.amount = amount, !.asked = {"amount"}]
              /\ out' = Said("Insufficient balance! Reduce the amount or add more funds.")
              /\ UNCHANGED <<Disk, Memory, pc>>
         ELSE \E ct \in ExpenseCategoryTries, d \in Descriptions,
                 continue_using \in ContinueInputs :
              /\ AcceptsCategory(categories, ct)
              /\ Len(expenses) < MaxLog
              /\ LET category_id == get_valid_category_id(categories, ct)
                     description == capitalize(d)
                 IN  /\ expenses' = Append(expenses,
                                       expense_record(amount, category_id, description))
                     /\ expensesFile' = save_expenses(expenses')
                     /\ balance' = fsub(balance, amount)
                     /\ balanceFile' = save_balance(balance')
                     /\ last' = [Ran("add_expense") EXCEPT
                                   !.amount = amount, !.category_id = category_id,
                                   !.description = description,
                                   !.asked = {"amount", "category", "description", "continue"}]
                     /\ out' = [Said("Expense added! Remaining balance:") EXCEPT
                                   !.total = balance']
                     /\ pc' = IF continue_using = "no" THEN "exited" ELSE "menu"
                     /\ UNCHANGED <<categoriesFile, categories>>

add_funds ==
    /\ script = "funds"
    /\ pc = "menu"
    /\ UNCHANGED script
    /\ \E at \in AmountTries, d \in FundsDescriptions, continue_using \in ContinueInputs :
         LET amount == get_valid_amount(at)
             description == capitalize(d)
         IN  /\ Len(expenses) < MaxLog
             /\ isnan(fadd(balance, amount)) \/ fadd(balance, amount) <= MaxBalance
             /\ expenses' = Append(expenses, income_record(amount, description))
             /\ expensesFile' = save_expenses(expenses')
             /\ balance' = fadd(balance, amount)
             /\ balanceFile' = save_balance(balance')
             /\ last' = [Ran("add_funds") EXCEPT
                           !.amount = amount, !.description = description,
                           !.asked = {"amount", "description", "continue"}]
             /\ out' = [Said("Funds added! New balance:") EXCEPT !.total = balance']
             /\ pc' = IF continue_using = "no" THEN "exited" ELSE "menu"
             /\ UNCHANGED <<categoriesFile, categories>>

view_expenses_funds ==
    /\ script = "funds"
    /\ pc = "menu"
    /\ UNCHANGED script
    /\ last' = Ran("view_expenses")
    /\ out' = IF expenses = <<>>
              THEN Said("No expenses recorded yet.")
              ELSE [NoOut EXCEPT !.items = Listing(expenses, categories, "Income")]
    /\ UNCHANGED <<Disk, Memory, pc>>

filter_expenses_by_category ==
    /\ script \in {"funds", "tracker"}
    /\ pc = "menu"
    /\ UNCHANGED script
    /\ \E ct \in CategoryTries :
         /\ AcceptsCategory(categories, ct)
         /\ LET category_id == get_valid_category_id(categories, ct)
                filtered == Filtered(expenses, category_id)
            IN  /\ last' = [Ran("filter_expenses_by_category") EXCEPT
                              !.category_id = category_id, !.asked = {"category"}]
                /\ out' = IF filtered = <<>>
                          THEN Said("No expenses found for category ID")
                          ELSE [msg |-> CategoryName(categories, PyInt(category_id), "Unknown"),
                                items |-> filtered, total |-> 0]
    /\ UNCHANGED <<Disk, Memory, pc>>

\* a total that adds up every amount, whatever its sign
total_spent_any_sign(log) ==
    sum(Amounts(log))

total_spent_funds(log) ==
    sum(SelectSeq(Amounts(log), LAMBDA a : flt(a, 0)))

view_total_spending_funds ==
    /\ script = "funds"
    /\ pc = "menu"
    /\ UNCHANGED script
    /\ last' = Ran("view_total_spending")
    /\ out' = [Said("Total spending:") EXCEPT !.total = abs(total_spent_funds(expenses))]
    /\ UNCHANGED <<Disk, Memory, pc>>

view_balance ==
    /\ script \in {"funds", "income"}
    /\ pc = "menu"
    /\ UNCHANGED script
    /\ last' = Ran("view_balance")
    /\ out' = [Said("Current balance:") EXCEPT !.total = balance]
    /\ UNCHANGED <<Disk, Memory, pc>>

\* an Exit choice that returns without the two open(..., "w").close() calls
exit_keeping_files ==
    /\ script \in {"funds", "income"}
    /\ pc = "menu"
    /\ UNCHANGED script
    /\ pc' = "exited"
    /\ last' = Ran("exit")
    /\ out' = Said("Goodbye! Restarting the budget tracker...")
    /\ UNCHANGED <<Disk, Memory>>

\* the Exit choice of Adding_Funds.py and Adding_Initial_Income.py
exit_clearing_files ==
    /\ script \in {"funds", "income"}
    /\ pc = "menu"
    /\ UNCHANGED script
    /\ balanceFile' = truncate
    /\ expensesFile' = truncate
    /\ pc' = "exited"
    /\ last' = Ran("exit")
    /\ out' = Said("Goodbye! Restarting the budget tracker...")
    /\ UNCHANGED <<categoriesFile, Memory>>

invalid_choice ==
    /\ pc = "menu"
    /\ UNCHANGED script
    /\ last' = Ran("invalid_choice")
    /\ out' = Said("Invalid choice, please try again.")
    /\ UNCHANGED <<Disk, Memory, pc>>

\* the script is started again; the files are what the last run left
run_again ==
    /\ pc \in {"exited", "crashed"}
    /\ UNCHANGED script
    /\ pc' = "boot"
    /\ balance' = 0
    /\ expenses' = <<>>
    /\ categories' = <<>>
    /\ last' = Ran("none")
    /\ out' = NoOut
    /\ UNCHANGED Disk

(***************************************************************************)
(* Adding_Initial_Income.py                                                *)
(***************************************************************************)
\* main, up to the first display of the menu
main_income ==
    /\ script = "income"
    /\ pc = "boot"
    /\ UNCHANGED script
    /\ \E t1 \in NumberTries, t2 \in NumberTries, t3 \in NumberTries, t4 \in NumberTries :
         LET lb == load_balance(balanceFile, t1) IN
         IF lb.raised
         THEN /\ pc' = "crashed"
              /\ last' = Ran("main")
              /\ out' = Said("AttributeError")
              /\ UNCHANGED <<Disk, Memory>>
         ELSE LET again == feq(lb.balance, 0)
                  s2 == set_initial_balance(t2)
                  b2 == IF again THEN s2.balance ELSE lb.balance
                  f2 == IF again THEN s2.file ELSE lb.file
                  again3 == feq(b2, 0)
                  s3 == set_initial_balance(t3)
                  f3 == IF again3 THEN s3.file ELSE f2
                  lc == load_categories(categoriesFile)
                  lb4 == load_balance(f3, t4)
              IN  /\ balance' = lb4.balance
                  /\ balanceFile' = lb4.file
                  /\ expenses' = load_expenses(expensesFile)
                  /\ categories' = lc.categories
                  /\ categoriesFile' = lc.file
                  /\ pc' = "menu"
                  /\ last' = [Ran("main") EXCEPT
                                !.prompted = lb.prompted + (IF again THEN 1 ELSE 0)
                                             + (IF again3 THEN 1 ELSE 0) + lb4.prompted]
                  /\ out' = NoOut
                  /\ UNCHANGED expensesFile

add_expense_income ==
    /\ script = "income"
    /\ pc = "menu"
    /\ UNCHANGED script
    /\ \E at \in AmountTries :
         LET amount == get_valid_amount(at) IN
         IF insufficient(amount, balance)
         THEN /\ last' = [Ran("add_expense") EXCEPT !.amount = amount, !.asked = {"amount"}]
              /\ out' = Said("Insufficient balance! Reduce the amount or add more funds.")
              /\ UNCHANGED <<Disk, Memory, pc>>
         ELSE \E ct \in ExpenseCategoryTries, d \in Descriptions :
              /\ AcceptsCategory(categories, ct)
              /\ Len(expenses) < MaxLog
              /\ LET category_id == get_valid_category_id(categories, ct)
                     description == capitalize(d)
                 IN  /\ expenses' = Append(expenses,
                                       Expense(amount, PyInt(category_id), description))
                     /\ expensesFile' = save_expenses(expenses')
                     /\ balance' = fsub(balance, amount)
                     /\ balanceFile' = save_balance(balance')
                     /\ last' = [Ran("add_expense") EXCEPT
                                   !.amount = amount, !.category_id = category_id,
                                   !.description = description,
                                   !.asked = {"amount", "category", "description"}]
                     /\ out' = [Said("Expense added! Remaining balance:") EXCEPT
                                   !.total = balance']
                     /\ UNCHANGED <<categoriesFile, categories, pc>>

\* view_expenses of Adding_Initial_Income.py and Budget_Tracker.py
view_expenses ==
    /\ script \in {"income", "tracker"}
    /\ pc = "menu"
    /\ UNCHANGED script
    /\ last' = Ran("view_expenses")
    /\ out' = IF expenses = <<>>
              THEN Said("No expenses recorded yet.")
              ELSE [NoOut EXCEPT !.items = Listing(expenses, categories, "Unknown")]
    /\ UNCHANGED <<Disk, Memory, pc>>

\* view_total_spending of Adding_Initial_Income.py and Budget_Tracker.py
view_total_spending ==
    /\ script \in {"income", "tracker"}
    /\ pc = "menu"
    /\ UNCHANGED script
    /\ last' = Ran("view_total_spending")
    /\ out' = [Said("Total spending:") EXCEPT !.total = sum(Amounts(expenses))]
    /\ UNCHANGED <<Disk, Memory, pc>>

(***************************************************************************)
(* Budget_Tracker.py                                                       *)
(***************************************************************************)
\* main, up to the first display of the menu
main_tracker ==
    /\ script = "tracker"
    /\ pc = "boot"
    /\ UNCHANGED script
    /\ LET lc == load_categories(categoriesFile)
       IN  /\ expenses' = load_expenses(expensesFile)
           /\ categories' = lc.categories
           /\ categoriesFile' = lc.file
    /\ pc' = "menu"
    /\ last' = Ran("main")
    /\ out' = NoOut
    /\ UNCHANGED <<balanceFile, expensesFile, balance>>

add_expense_tracker ==
    /\ script = "tracker"
    /\ pc = "menu"
    /\ UNCHANGED script
    /\ \E at \in NumberTries, ct \in ExpenseCategoryTries, dt \in DescriptionTries :
         /\ AcceptsCategory(categories, ct)
         /\ AcceptsString(dt)
         /\ Len(expenses) < MaxLog
         /\ LET amount == get_valid_amount(at)
                category_id == get_valid_category_id(categories, ct)
                description == get_valid_string(dt)
            IN  /\ expenses' = Append(expenses,
                                  Expense(amount, PyInt(category_id), description))
                /\ expensesFile' = save_expenses(expenses')
                /\ last' = [Ran("add_expense") EXCEPT
                              !.amount = amount, !.category_id = category_id,
                                   !.description = description,
                              !.asked = {"amount", "category", "description"}]
                /\ out' = Said("Expense added successfully!")
    /\ UNCHANGED <<balanceFile, categoriesFile, balance, categories, pc>>

\* what is typed at "Enter the number of the expense to ...": text that is
\* not a number, or a number from below the first entry to beyond the list
IndexInputs == {NotANumber} \cup {Num(n) : n \in 0..(MaxLog + 1)}

view_expenses_parameters == 2        \* def view_expenses(expenses, categories)
delete_expense_passes == 1           \* view_expenses(expenses)

\* a call raises TypeError unless it passes every positional parameter
CallRaises(parameters, passed) == passed # parameters

delete_expense ==
    /\ script = "tracker"
    /\ pc = "menu"
    /\ UNCHANGED script
    /\ IF CallRaises(view_expenses_parameters, delete_expense_passes)
       THEN /\ pc' = "crashed"
            /\ last' = Ran("delete_expense")
            /\ out' = Said("TypeError")
            /\ UNCHANGED <<Disk, Memory>>
       ELSE \E typed \in IndexInputs :
            IF ~typed.isnum
            THEN /\ last' = Ran("delete_expense")
                 /\ out' = Said("Invalid input! Please enter a number.")
                 /\ UNCHANGED <<Disk, Memory, pc>>
            ELSE LET index == typed.n - 1 IN
                 IF valid_index(index, Len(expenses))
                 THEN /\ expenses' = delitem(expenses, index)
                      /\ expensesFile' = save_expenses(expenses')
                      /\ last' = [Ran("delete_expense") EXCEPT !.index = typed.n]
                      /\ out' = Said("Expense deleted successfully!")
                      /\ UNCHANGED <<balanceFile, categoriesFile, balance, categories, pc>>
                 ELSE /\ last' = [Ran("delete_expense") EXCEPT !.index = typed.n]
                      /\ out' = Said("Invalid expense number.")
                      /\ UNCHANGED <<Disk, Memory, pc>>

edit_expense ==
    /\ script = "tracker"
    /\ pc = "menu"
    /\ UNCHANGED script
    /\ \E typed \in IndexInputs :
         IF ~typed.isnum
         THEN /\ last' = [Ran("edit_expense") EXCEPT !.asked = {"index"}]
              /\ out' = Said("Invalid input! Please enter a number.")
              /\ UNCHANGED <<Disk, Memory, pc>>
         ELSE LET index == typed.n - 1 IN
              IF valid_index(index, Len(expenses))
              THEN \E at \in NumberTries, ct \in ExpenseCategoryTries,
                      dt \in DescriptionTries :
                   /\ AcceptsCategory(categories, ct)
                   /\ AcceptsString(dt)
                   /\ LET amount == get_valid_amount(at)
                          category_id == get_valid_category_id(categories, ct)
                          description == get_valid_string(dt)
                      IN  /\ expenses' = setitem(expenses, index,
                                            Expense(amount, PyInt(category_id), description))
                          /\ expensesFile' = save_expenses(expenses')
                          /\ last' = [Ran("edit_expense") EXCEPT
                                        !.index = typed.n, !.amount = amount,
                                        !.category_id = category_id,
                                        !.description = description,
                                        !.asked = {"index", "amount", "category", "description"}]
                          /\ out' = Said("Expense updated successfully!")
                   /\ UNCHANGED <<balanceFile, categoriesFile, balance, categories, pc>>
              ELSE /\ last' = [Ran("edit_expense") EXCEPT
                                 !.index = typed.n, !.asked = {"index"}]
                   /\ out' = Said("Invalid expense number.")
                   /\ UNCHANGED <<Disk, Memory, pc>>

\* the Exit choice of Budget_Tracker.py
exit_tracker ==
    /\ script = "tracker"
    /\ pc = "menu"
    /\ UNCHANGED script
    /\ pc' = "exited"
    /\ last' = Ran("exit")
    /\ out' = Said("Goodbye! See you soon!")
    /\ UNCHANGED <<Disk, Memory>>

(***************************************************************************)
(* The three scripts                                                       *)
(***************************************************************************)
Next ==
    \/ main_funds
    \/ add_expense_funds
    \/ add_funds
    \/ view_expenses_funds
    \/ view_total_spending_funds
    \/ main_income
    \/ add_expense_income
    \/ view_balance
    \/ exit_clearing_files
    \/ main_tracker
    \/ add_expense_tracker
    \/ view_expenses
    \/ view_total_spending
    \/ filter_expenses_by_category
    \/ delete_expense
    \/ edit_expense
    \/ exit_tracker
    \/ invalid_choice
    \/ run_again

Spec == Init /\ [][Next]_vars

TypeOK ==
    /\ script \in Scripts
    /\ pc \in {"boot", "menu", "exited", "crashed"}
    /\ balance \in Int
    /\ Len(expenses) <= MaxLog

(***************************************************************************)
(* Properties                                                              *)
(***************************************************************************)
WithBalance == script \in {"funds", "income"}

\* the step appends exactly one record and leaves the earlier ones alone
AppendsOne == /\ Len(expenses') = Len(expenses) + 1
              /\ SubSeq(expenses', 1, Len(expenses)) = expenses

\* both files hold what the next state has in memory
Persisted == /\ ~LoadFails(balanceFile')
             /\ ~load_balance(balanceFile', <<>>).raised
             /\ load_balance(balanceFile', <<>>).balance = balance'
             /\ load_balance(balanceFile', <<>>).prompted = 0
             /\ load_expenses(expensesFile') = expenses'
             /\ ~LoadFails(expensesFile')

\* C1: in the scripts that keep a balance, add_expense with an accepted
\* amount a <= balance appends exactly one transaction of that amount to the
\* end of the log, leaves the earlier entries unchanged, sets the balance to
\* balance - a, and the balance and expenses files hold the new values.
C1_AddExpenseDeducts ==
    [][ (WithBalance /\ pc = "menu" /\ last'.op = "add_expense"
            /\ fle(last'.amount, balance))
        => /\ AppendsOne
           /\ abs(expenses'[Len(expenses')].amount) = last'.amount
           /\ balance' = fsub(balance, last'.amount)
           /\ Persisted ]_vars

C1_Witness ==
    /\ script = "funds"
    /\ last.op = "add_expense"
    /\ "category" \in last.asked
    /\ last.amount > 0
    /\ Len(expenses) = 2
    /\ balance > 0
    /\ pc = "menu"

\* C2: add_expense with an amount a > balance changes neither the balance,
\* nor the log, nor the balance and expenses files; it asks for no category
\* and no description and returns to the menu.
C2_AddExpenseRefused ==
    [][ (WithBalance /\ pc = "menu" /\ last'.op = "add_expense"
            /\ fgt(last'.amount, balance))
        => /\ balance' = balance
           /\ expenses' = expenses
           /\ balanceFile' = balanceFile
           /\ expensesFile' = expensesFile
           /\ last'.asked = {"amount"}
           /\ pc' = "menu" ]_vars

C2_Witness ==
    /\ WithBalance
    /\ last.op = "add_expense"
    /\ fgt(last.amount, balance)
    /\ last.asked = {"amount"}
    /\ expenses # <<>>
    /\ pc = "menu"

\* C3: add_funds with an accepted amount a sets the balance to balance + a,
\* whatever the balance was (0 included), and appends exactly one
\* transaction with category_id "Income" and amount +a; the balance and
\* expenses files hold the new values.
C3_AddFundsCredits ==
    [][ (pc = "menu" /\ last'.op = "add_funds")
        => /\ balance' = fadd(balance, last'.amount)
           /\ AppendsOne
           /\ expenses'[Len(expenses')].category_id = Income
           /\ expenses'[Len(expenses')].amount = last'.amount
           /\ Persisted ]_vars

\* funds were added to a balance of 0
C3_Witness ==
    /\ last.op = "add_funds"
    /\ last.amount > 0
    /\ balance = last.amount
    /\ expenses[Len(expenses)].category_id = Income
    /\ pc = "menu"

\* the log without its i-th entry (i counted from 1)
Without(log, i) == SubSeq(log, 1, i - 1) \o SubSeq(log, i + 1, Len(log))

\* C4: delete_expense on a log of length n >= 1, for an index i in 1..n,
\* completes (control is back at the menu) and leaves the log of length
\* n - 1 that is the old log without its i-th entry, the others in their
\* order, and the expenses file holds that log.
C4_DeleteRemovesOne ==
    [][ (script = "tracker" /\ pc = "menu" /\ last'.op = "delete_expense"
            /\ Len(expenses) >= 1)
        => /\ pc' = "menu"
           /\ \E i \in 1..Len(expenses) : expenses' = Without(expenses, i)
           /\ load_expenses(expensesFile') = expenses' ]_vars

\* C5: edit_expense with a typed number i in 1..len(log) replaces the i-th
\* transaction by one built from the newly collected amount, category and
\* description, and leaves the length and every other entry unchanged; with
\* any other entry (0, a negative number, a number beyond the log, text) the
\* log and the expenses file are unchanged.
C5_EditReplacesOne ==
    [][ (pc = "menu" /\ last'.op = "edit_expense")
        => IF last'.index \in 1..Len(expenses)
           THEN /\ Len(expenses') = Len(expenses)
                /\ \A j \in 1..Len(expenses) :
                      j # last'.index => expenses'[j] = expenses[j]
                /\ expenses'[last'.index] =
                      Expense(last'.amount, PyInt(last'.category_id), last'.description)
                /\ last'.asked = {"index", "amount", "category", "description"}
                /\ load_expenses(expensesFile') = expenses'
           ELSE /\ expenses' = expenses
                /\ expensesFile' = expensesFile
                /\ last'.asked = {"index"} ]_vars

\* the first entry of a log of two was edited; the second was not
C5_Witness ==
    /\ last.op = "edit_expense"
    /\ last.index = 1
    /\ "description" \in last.asked
    /\ Len(expenses) = 2
    /\ expenses[1].amount = last.amount
    /\ expenses[2] # expenses[1]

\* C6: no operation is fatal: no menu choice and no startup load ends the
\* program with an unhandled error.
C6_NoOperationIsFatal == pc # "crashed"

\* the balance file holds a balance, and it is b
HoldsBalance(file, b) ==
    /\ file.kind = "obj"
    /\ "balance" \in DOMAIN file.val
    /\ file.val.balance = b

\* the balance file is missing, unparsable, or holds no balance or 0
NothingToLoad(file) ==
    \/ LoadFails(file)
    \/ file.kind = "obj" /\ "balance" \notin DOMAIN file.val
    \/ HoldsBalance(file, 0)

\* C7: when the balance file is missing or unparsable, or the loaded balance
\* is 0, startup asks for an initial balance before the menu is shown; and
\* whenever the menu is first shown the balance file holds the balance the
\* program has in memory.
C7_BalancePersistedBeforeMenu ==
    [][ (WithBalance /\ pc = "boot" /\ pc' = "menu")
        => /\ NothingToLoad(balanceFile) => last'.prompted >= 1
           /\ HoldsBalance(balanceFile', balance') ]_vars

\* the menu was reached after a prompt for the initial balance
C7_Witness ==
    /\ WithBalance
    /\ pc = "menu"
    /\ last.op = "main"
    /\ last.prompted >= 1
    /\ balance > 0
    /\ HoldsBalance(balanceFile, balance)

\* the three files are as save_balance, save_expenses and load_categories
\* write them
SavedFiles ==
    /\ \E b \in (0..MaxBalance) \cup {nan} : balanceFile = save_balance(b)
    /\ expensesFile.kind = "arr"
    /\ categoriesFile.kind = "arr"

\* C8: startup from saved files loads exactly what was saved: the balance,
\* the log and the categories in memory are those of the files, and no
\* prompt replaces any of them (a saved balance of 0 and an empty log
\* included).
C8_RoundTrip ==
    [][ (WithBalance /\ pc = "boot" /\ pc' = "menu" /\ SavedFiles)
        => /\ balance' = balanceFile.val.balance
           /\ expenses' = expensesFile.val
           /\ categories' = categoriesFile.val
           /\ last'.prompted = 0
           /\ UNCHANGED Disk ]_vars

\* the positions of the log whose category_id is the int c
Matches(log, c) == {i \in 1..Len(log) : IsPyInt(log[i].category_id) /\ log[i].category_id.int = c}
\* the k-th smallest element of a set of numbers
Kth(S, k) == CHOOSE i \in S : Cardinality({j \in S : j < i}) = k - 1

\* C9: filter_expenses_by_category for an accepted category id c shows
\* exactly the transactions of the log whose category_id is c, in log order
\* (so none with category_id "Income"); it shows nothing when none matches;
\* it returns to the menu and changes neither the balance, nor the log, nor
\* the files.
C9_FilterShowsMatches ==
    [][ (pc = "menu" /\ last'.op = "filter_expenses_by_category")
        => LET c == last'.category_id
               shown == out'.items
           IN  /\ \E k \in 1..Len(categories) : categories[k].id = c
               /\ Len(shown) = Cardinality(Matches(expenses, c))
               /\ \A k \in 1..Len(shown) : shown[k] = expenses[Kth(Matches(expenses, c), k)]
               /\ \A k \in 1..Len(shown) : shown[k].category_id # Income
               /\ pc' = "menu"
               /\ UNCHANGED <<Disk, Memory>> ]_vars

\* a filter showed one entry of a log that also holds an income entry
C9_Witness ==
    /\ last.op = "filter_expenses_by_category"
    /\ Len(out.items) = 1
    /\ Len(expenses) = 2
    /\ \E i \in 1..Len(expenses) : expenses[i].category_id = Income

\* entry e references a category of cats unless its category_id is not a number
References(e, cats) ==
    IsPyInt(e.category_id) => \E k \in 1..Len(cats) : cats[k].id = e.category_id.int
AllReference(log, cats) == \A i \in 1..Len(log) : References(log[i], cats)

\* C10: a menu operation that starts with every numeric category_id of the
\* log referencing a category of the registry ends that way; and whatever
\* the log was, every entry a menu operation appends or rewrites references
\* a category of the registry.
C10_CategoryReferences ==
    [][ pc = "menu"
        => /\ AllReference(expenses, categories) => AllReference(expenses', categories')
           /\ \A i \in 1..Len(expenses') :
                 (i > Len(expenses) \/ expenses'[i] # expenses[i])
                    => References(expenses'[i], categories') ]_vars

\* an expense was added or rewritten and the log of two references only
\* categories of the registry
C10_Witness ==
    /\ pc = "menu"
    /\ last.op \in {"add_expense", "edit_expense"}
    /\ "category" \in last.asked
    /\ Len(expenses) = 2
    /\ AllReference(expenses, categories)

\* C11: in the scripts that keep a balance, the balance is >= 0 whenever the
\* menu is shown: after the start-up prompt and after any sequence of
\* add_expense and add_funds with accepted amounts.
C11_BalanceNonNegative ==
    (WithBalance /\ pc = "menu") => fge(balance, 0)

\* C12 as stated: in the scripts that clear their files on exit, every step
\* that ends the program from the menu leaves the balance file and the
\* expenses file cleared.
C12_EveryExitClears ==
    [][ (WithBalance /\ pc = "menu" /\ pc' = "exited")
        => /\ balanceFile' = truncate
           /\ expensesFile' = truncate ]_vars

\* C12: the Exit choice of the menu ends the program with the balance file
\* and the expenses file cleared; a run started on cleared files asks for an
\* initial balance and reaches the menu with an empty log; and the exit taken
\* by answering "no" after a transaction of Adding_Funds.py leaves in both
\* files what the transaction saved.
C12_ExitChoiceClears ==
    [][ /\ (WithBalance /\ pc = "menu" /\ last'.op = "exit")
            => /\ pc' = "exited"
               /\ balanceFile' = truncate
               /\ expensesFile' = truncate
        /\ (WithBalance /\ pc = "boot"
                /\ balanceFile = truncate /\ expensesFile = truncate)
            => /\ pc' = "menu"
               /\ expenses' = <<>>
               /\ last'.prompted >= 1
               /\ balanceFile' = save_balance(balance')
        /\ (WithBalance /\ pc = "menu" /\ pc' = "exited" /\ last'.op # "exit")
            => /\ script = "funds"
               /\ last'.op \in {"add_expense", "add_funds"}
               /\ "continue" \in last'.asked
               /\ Persisted ]_vars

\* the Exit choice was taken with a transaction in the log and money left
C12_Witness ==
    /\ WithBalance
    /\ pc = "exited"
    /\ last.op = "exit"
    /\ Len(expenses) >= 1
    /\ balance > 0
    /\ balanceFile = truncate
    /\ expensesFile = truncate

\* what the entries of negative amount add up to, as an absolute value
SpentNegative(log) ==
    sum([i \in 1..Len(log) |->
            IF flt(log[i].amount, 0) THEN fneg(log[i].amount) ELSE 0])

\* C13 as stated: in every script the total that view_total_spending reports
\* is the absolute value of the sum of the negative-amount entries of the log.
C13_SumOfNegatives ==
    [][ (pc = "menu" /\ last'.op = "view_total_spending")
        => out'.total = SpentNegative(expenses) ]_vars

\* the total of each script: Adding_Funds.py stores an expense as a negative
\* amount and adds up the negative amounts; the other two store it as a
\* positive amount and add up every amount
TotalSpending(log) ==
    IF script = "funds" THEN SpentNegative(log) ELSE sum(Amounts(log))

\* what an added expense of the amount adds to the total: in Adding_Funds.py
\* an amount that is not a number is stored and not counted
Counted(amount) ==
    IF script = "funds" /\ isnan(amount) THEN 0 ELSE amount

\* C13: view_total_spending reports TotalSpending of the log and changes
\* nothing; an add_expense that appends an entry raises TotalSpending by its
\* amount; add_funds leaves TotalSpending as it was.
C13_TotalSpending ==
    [][ /\ (pc = "menu" /\ last'.op = "view_total_spending")
            => /\ out'.total = TotalSpending(expenses)
               /\ UNCHANGED <<Disk, Memory, pc>>
        /\ (pc = "menu" /\ last'.op = "add_expense"
                /\ Len(expenses') = Len(expenses) + 1)
            => TotalSpending(expenses')
                  = fadd(TotalSpending(expenses), Counted(last'.amount))
        /\ (pc = "menu" /\ last'.op = "add_expense"
                /\ Len(expenses') # Len(expenses) + 1)
            => TotalSpending(expenses') = TotalSpending(expenses)
        /\ (pc = "menu" /\ last'.op = "add_funds")
            => TotalSpending(expenses') = TotalSpending(expenses) ]_vars

\* the total of two positive amounts was shown by a script that stores
\* expenses as positive amounts
C13_Witness ==
    /\ script \in {"income", "tracker"}
    /\ pc = "menu"
    /\ last.op = "view_total_spending"
    /\ Len(expenses) = 2
    /\ \A i \in 1..2 : expenses[i].amount > 0
    /\ out.total = expenses[1].amount + expenses[2].amount

\* C14: every entry that a menu operation (add_expense, add_funds,
\* edit_expense) appends to the log or rewrites in it has a description that
\* is not empty.
C14_DescriptionNonEmpty ==
    [][ pc = "menu"
        => \A i \in 1..Len(expenses') :
              (i > Len(expenses) \/ expenses'[i] # expenses[i])
                 => expenses'[i].description # <<>> ]_vars

\* the entries of the next log that the step appended
Appended == SubSeq(expenses', Len(expenses) + 1, Len(expenses'))

\* what a start would read from the two files is what the next state has in
\* memory
Stored == /\ ~LoadFails(balanceFile')
          /\ ~load_balance(balanceFile', <<>>).raised
          /\ load_balance(balanceFile', <<>>).prompted = 0
          /\ load_balance(balanceFile', <<>>).balance = balance'
          /\ load_expenses(expensesFile') = expenses'

\* C15: in Adding_Funds.py every step taken from the menu (add_expense and
\* add_funds, accepted or refused, and every other choice) keeps the log it
\* found as a prefix of the next log, moves the balance by exactly the sum of
\* the signed amounts of the entries it appended, and, when it returns to the
\* menu, leaves in the balance and expenses files the balance and the log in
\* memory; the same holds of the files when the menu is first shown.  Over a
\* session the balance is then the starting balance plus the signed amounts
\* appended since, and the log is the starting log extended by appends.
C15_LedgerConservation ==
    [][ /\ (script = "funds" /\ pc = "menu")
            => /\ Len(expenses') >= Len(expenses)
               /\ SubSeq(expenses', 1, Len(expenses)) = expenses
               /\ balance' = fadd(balance, sum(Amounts(Appended)))
               /\ last'.op \in {"add_expense", "add_funds"}
                    => Len(Appended) <= 1
        /\ (script = "funds" /\ pc' = "menu")
            => Stored ]_vars

\* funds were added after an expense: the log holds the negative and the
\* positive entry, and money is left
C15_Witness ==
    /\ script = "funds"
    /\ pc = "menu"
    /\ last.op = "add_funds"
    /\ Len(expenses) = 2
    /\ IsPyInt(expenses[1].category_id) /\ flt(expenses[1].amount, 0)
    /\ expenses[2].category_id = Income /\ fgt(expenses[2].amount, 0)
    /\ fgt(balance, 0)
    /\ balanceFile = save_balance(balance)
    /\ expensesFile = save_expenses(expenses)

====
